---- MODULE Spec2Model ----
(***************************************************************************)
(* Model of src/rtdetr_pytorch/src/zoo/train.py: the training driver      *)
(* fit() (checkpoint resume, device placement, distributed wrapping, the   *)
(* epoch loop and checkpoint writes) and the evaluation driver val()       *)
(* (weight loading, per-batch aggregation, synchronisation, top-K          *)
(* postprocessing).                                                         *)
(***************************************************************************)
EXTENDS Integers, Sequences, FiniteSets, TLC

\* Largest epoch budget explored.
MaxEpoch == 4

\* weight_path = None
None == 0

\* Ranks of the processes of a distributed run (rank 0 is the master).
Ranks == {0, 1}

\* max_norm=0.1 passed to train_one_epoch, in tenths.
MaxNorm == 1

VARIABLES
  run,         \* 1: first (fresh) invocation of fit, 2: a resumed invocation
  pc,          \* position inside fit
  budget,      \* the `epoch` argument of fit
  weightPath,  \* None, or r meaning save_dir/r.pth
  useEma,      \* use_ema
  isDist,      \* dist.is_dist_available_and_initialized()
  rank,        \* rank of this process
  lastEpoch,   \* last_epoch
  ep,          \* loop variable `epoch`
  files,       \* save_dir on disk: epoch number -> stored state_dict
  writes,      \* epochs of the checkpoint files written in this invocation
  log,         \* observable calls of this invocation, in order
  lastDone,    \* last completed epoch of this invocation
  final1,      \* last completed epoch of the first invocation
  budget1,     \* budget of the first invocation
  vpc,         \* position inside val
  wpath,       \* val's weight_path: None or a string (sequence of characters)
  ckptHasEma,  \* 'ema' in state, for the checkpoint at wpath
  loadedFrom,  \* "remote" (torch.hub) or "local" (torch.load), "" if none
  loadedKey,   \* "ema.module" or "model", "" if none
  loadStrict,  \* strict= flag of model.load_state_dict
  loads,       \* number of model.load_state_dict calls
  batches,     \* image_ids of the targets of each validation batch
  bi,          \* index of the next batch
  acc,         \* coco_evaluator's image_id -> DetectionResult (<<batch, pos>>)
  failed,      \* the run raised
  otherIds,    \* image_ids accumulated by the other process
  merged,      \* image_ids of the synchronised global mapping
  cands,       \* raw candidate scores of one image: score -> count
  result       \* scores of the DetectionResult of that image, in order

fitVars == <<run, pc, budget, weightPath, useEma, isDist, rank, lastEpoch,
             ep, files, writes, log, lastDone, final1, budget1>>

valVars == <<vpc, wpath, ckptHasEma, loadedFrom, loadedKey, loadStrict, loads,
             batches, bi, acc, failed, otherIds, merged, cands, result>>

vars == <<fitVars, valVars>>

\* state_dict(epoch, model, ema_model) of src.nn.rtdetr.utils
StateDict(e, ema) == [epoch |-> e, model |-> TRUE, ema |-> ema]

\* load_tuning_state(weight_path, model, ema_model): the stored epoch
LoadTuningState(p) == files[p].epoch

StartEpochBug(l) == l

\* range(last_epoch + 1, epoch): first value
StartEpoch(l) == l + 1

LoopContinuesBug(e, hi) == e <= hi

\* range(last_epoch + 1, epoch): loop continues while value < stop
LoopContinues(e, hi) == e < hi

NextEpochBug(e) == e + 2

\* successive values of range()
NextEpoch(e) == e + 1

AfterLoadBug == "dist_wrap"

\* pc after the resume block (lines 47-49)
AfterLoad == "to_device"

AfterTrainBug == "save"

\* pc after train_one_epoch (line 78)
AfterTrain == "lr_step"

\* dist.save_on_master(obj, path): only rank 0 writes
SaveOnMaster(e) ==
  IF rank = 0
  THEN /\ files' = (e :> StateDict(e, useEma)) @@ files
       /\ writes' = Append(writes, e)
  ELSE UNCHANGED <<files, writes>>

FitInit ==
  /\ run = 1
  /\ pc = "load"
  /\ budget \in 1..MaxEpoch
  /\ weightPath = None
  /\ useEma \in BOOLEAN
  /\ isDist \in BOOLEAN
  /\ rank \in (IF isDist THEN Ranks ELSE {0})
  /\ lastEpoch = 0
  /\ ep = 0
  /\ files = <<>>
  /\ writes = <<>>
  /\ log = <<>>
  /\ lastDone = 0
  /\ final1 = 0
  /\ budget1 = 0

\* lines 47-49
Load ==
  /\ pc = "load"
  /\ lastEpoch' = IF weightPath = None THEN 0 ELSE LoadTuningState(weightPath)
  /\ lastDone' = lastEpoch'
  /\ pc' = AfterLoad
  /\ UNCHANGED <<run, budget, weightPath, useEma, isDist, rank, ep, files,
                 writes, log, final1, budget1>>

\* lines 51-55
ToDevice ==
  /\ pc = "to_device"
  /\ log' = log \o <<<<"to_model", 0, 0>>>>
                \o (IF useEma THEN <<<<"to_ema", 0, 0>>>> ELSE <<>>)
                \o <<<<"to_crit", 0, 0>>>>
  /\ pc' = "dist_wrap"
  /\ UNCHANGED <<run, budget, weightPath, useEma, isDist, rank, lastEpoch, ep,
                 files, writes, lastDone, final1, budget1>>

\* lines 58-64
DistWrap ==
  /\ pc = "dist_wrap"
  /\ log' = IF isDist
            THEN log \o <<<<"wrap_train", 0, 0>>, <<"wrap_val", 0, 0>>,
                          <<"wrap_model", 0, 0>>>>
            ELSE log
  /\ pc' = "loop_init"
  /\ UNCHANGED <<run, budget, weightPath, useEma, isDist, rank, lastEpoch, ep,
                 files, writes, lastDone, final1, budget1>>

\* line 74: the range object is built
LoopInit ==
  /\ pc = "loop_init"
  /\ ep' = StartEpoch(lastEpoch)
  /\ pc' = "loop_head"
  /\ UNCHANGED <<run, budget, weightPath, useEma, isDist, rank, lastEpoch,
                 files, writes, log, lastDone, final1, budget1>>

\* line 74: next iteration or loop exit
LoopHead ==
  /\ pc = "loop_head"
  /\ pc' = IF LoopContinues(ep, budget) THEN "set_epoch" ELSE "done"
  /\ UNCHANGED <<run, budget, weightPath, useEma, isDist, rank, lastEpoch, ep,
                 files, writes, log, lastDone, final1, budget1>>

\* lines 75-76
SetEpoch ==
  /\ pc = "set_epoch"
  /\ log' = IF isDist THEN Append(log, <<"set_epoch", ep, 0>>) ELSE log
  /\ pc' = "train"
  /\ UNCHANGED <<run, budget, weightPath, useEma, isDist, rank, lastEpoch, ep,
                 files, writes, lastDone, final1, budget1>>

\* line 78
Train ==
  /\ pc = "train"
  /\ log' = Append(log, <<"train", ep, MaxNorm>>)
  /\ pc' = AfterTrain
  /\ UNCHANGED <<run, budget, weightPath, useEma, isDist, rank, lastEpoch, ep,
                 files, writes, lastDone, final1, budget1>>

\* line 80
LrStep ==
  /\ pc = "lr_step"
  /\ log' = Append(log, <<"lr_step", ep, 0>>)
  /\ pc' = "save"
  /\ UNCHANGED <<run, budget, weightPath, useEma, isDist, rank, lastEpoch, ep,
                 files, writes, lastDone, final1, budget1>>

\* line 82, then the next value of the range
Save ==
  /\ pc = "save"
  /\ log' = Append(log, <<"save_on_master", ep, 0>>)
  /\ SaveOnMaster(ep)
  /\ lastDone' = ep
  /\ ep' = NextEpoch(ep)
  /\ pc' = "loop_head"
  /\ UNCHANGED <<run, budget, weightPath, useEma, isDist, rank, lastEpoch,
                 final1, budget1>>

\* a later call fit(weight_path=save_dir/r.pth, epoch=E2), any E2, by any
\* process of a new (single or distributed) launch reading the shared save_dir
Resume ==
  /\ run = 1
  /\ pc = "done"
  /\ \E r \in DOMAIN files, e2 \in 1..MaxEpoch :
       /\ weightPath' = r
       /\ budget' = e2
  /\ useEma' \in BOOLEAN
  /\ isDist' \in BOOLEAN
  /\ rank' \in (IF isDist' THEN Ranks ELSE {0})
  /\ run' = 2
  /\ pc' = "load"
  /\ final1' = lastDone
  /\ budget1' = budget
  /\ writes' = <<>>
  /\ log' = <<>>
  /\ lastEpoch' = 0
  /\ ep' = 0
  /\ lastDone' = 0
  /\ UNCHANGED files

FitNext ==
  \/ Load
  \/ ToDevice
  \/ DistWrap
  \/ LoopInit
  \/ LoopHead
  \/ SetEpoch
  \/ Train
  \/ LrStep
  \/ Save
  \/ Resume

\* val's weight_path=None; a given path is [given |-> TRUE, str |-> s]
NonePath == [given |-> FALSE, str |-> <<>>]

\* val is not running during fit
ValIdle ==
  /\ vpc = "idle"
  /\ wpath = NonePath
  /\ ckptHasEma = FALSE
  /\ loadedFrom = ""
  /\ loadedKey = ""
  /\ loadStrict = TRUE
  /\ loads = 0
  /\ batches = <<>>
  /\ bi = 1
  /\ acc = <<>>
  /\ failed = FALSE
  /\ otherIds = {}
  /\ merged = {}
  /\ cands = <<>>
  /\ result = <<>>

Init == FitInit /\ ValIdle

Next == FitNext /\ UNCHANGED valVars

Spec == Init /\ [][Next]_vars

(***************************************************************************)
(* Properties of fit                                                       *)
(***************************************************************************)

Range(s) == {s[i] : i \in 1..Len(s)}

IsLoopEvent(x) == x[1] \in {"set_epoch", "train", "lr_step", "save_on_master"}

LoopLog == SelectSeq(log, IsLoopEvent)

CountEvents(name) == Len(SelectSeq(log, LAMBDA x : x[1] = name))

IndexOf(name) ==
  IF \E i \in 1..Len(log) : log[i][1] = name
  THEN CHOOSE i \in 1..Len(log) : log[i][1] = name
  ELSE 0

EpochEvents(e) ==
  (IF isDist THEN <<<<"set_epoch", e, 0>>>> ELSE <<>>)
  \o <<<<"train", e, MaxNorm>>, <<"lr_step", e, 0>>, <<"save_on_master", e, 0>>>>

RECURSIVE EpochsEvents(_, _)
EpochsEvents(lo, hi) ==
  IF lo > hi THEN <<>> ELSE EpochEvents(lo) \o EpochsEvents(lo + 1, hi)

IsPrefix(s, t) == Len(s) <= Len(t) /\ s = SubSeq(t, 1, Len(s))

Max2(a, b) == IF a > b THEN a ELSE b

\* C1: a fresh run with budget E (no EMA, single process) writes exactly
\* the checkpoints 1.pth .. E.pth, the file for epoch k storing epoch k.
C1_FreshRunWritesAllEpochs ==
  (run = 1 /\ pc = "done" /\ ~useEma /\ ~isDist)
    => /\ DOMAIN files = 1..budget
       /\ \A k \in DOMAIN files : files[k].epoch = k

\* C2: a run resumed from r.pth with budget E > r writes exactly the
\* checkpoints r+1 .. E and no others.
C2_ResumeWritesRestOfBudget ==
  (run = 2 /\ pc = "done" /\ rank = 0 /\ budget > weightPath)
    => Range(writes) = (weightPath + 1)..budget

\* C3: a run resumed from the checkpoint of epoch r with the same budget E
\* ends at the same last completed epoch as the uninterrupted run, and the
\* resumed run never writes a checkpoint for an epoch <= r.
C3_ResumeMatchesUninterrupted ==
  /\ run = 2 => \A i \in 1..Len(writes) : writes[i] > weightPath
  /\ (run = 2 /\ pc = "done" /\ budget = budget1) => lastDone = final1

C3_Witness ==
  run = 2 /\ pc = "done" /\ budget = budget1 /\ Len(writes) > 0

\* C4: inside every epoch the calls are, in order, set_epoch (distributed
\* only), train_one_epoch with max_norm 0.1, one lr_scheduler.step() and one
\* save_on_master; only rank 0 writes, and the stored state carries EMA
\* weights exactly when EMA is enabled.
C4_EpochStepOrder ==
  /\ pc \in {"loop_head", "done"}
       => LoopLog = EpochsEvents(StartEpoch(lastEpoch), ep - 1)
  /\ pc \in {"set_epoch", "train", "lr_step", "save"}
       => /\ IsPrefix(EpochsEvents(StartEpoch(lastEpoch), ep - 1), LoopLog)
          /\ IsPrefix(SubSeq(LoopLog,
                             Len(EpochsEvents(StartEpoch(lastEpoch), ep - 1)) + 1,
                             Len(LoopLog)),
                      EpochEvents(ep))
  /\ Len(writes) > 0 => rank = 0
  /\ \A i \in 1..Len(writes) :
       files[writes[i]].ema = useEma /\ files[writes[i]].epoch = writes[i]

C4_Witness ==
  isDist /\ useEma /\ rank = 0 /\ pc = "done" /\ Len(writes) >= 2

\* C5: the epoch counter starts at last_epoch + 1 and increases by one per
\* iteration; checkpoint writes are one per epoch, in increasing epoch
\* order, and a file written earlier in the run is never overwritten or
\* deleted later in the run.
C5_State ==
  /\ LoopLog # <<>> => LoopLog[1][2] = lastEpoch + 1
  /\ pc \in {"loop_head", "set_epoch", "train", "lr_step", "save"}
       => ep >= lastEpoch + 1
  /\ \A i \in 1..Len(writes) : writes[i] >= lastEpoch + 1
  /\ \A i \in 1..Len(writes) - 1 : writes[i] < writes[i + 1]

C5_Step ==
  /\ (run' = run /\ pc # "loop_init" /\ ep' # ep) => ep' = ep + 1
  /\ run' = run
       => \A i \in 1..Len(writes) :
            writes[i] \in DOMAIN files' /\ files'[writes[i]] = files[writes[i]]

C5_EpochMonotoneCheckpoints == []C5_State /\ [][C5_Step]_fitVars

C5_Witness == pc = "done" /\ Len(writes) >= 2

\* C6: in distributed mode both loaders and the model are wrapped, each
\* wrap strictly after model.to(device), the EMA's and the criterion's.
C6_WrapAfterToDevice ==
  (isDist /\ pc \in {"loop_init"} \cup {"loop_head", "set_epoch", "train",
                                        "lr_step", "save", "done"})
    => \A w \in {"wrap_train", "wrap_val", "wrap_model"} :
         /\ IndexOf(w) > 0
         /\ IndexOf("to_model") > 0 /\ IndexOf(w) > IndexOf("to_model")
         /\ IndexOf("to_crit") > 0 /\ IndexOf(w) > IndexOf("to_crit")
         /\ useEma => (IndexOf("to_ema") > 0 /\ IndexOf(w) > IndexOf("to_ema"))

C6_Witness == isDist /\ useEma /\ pc = "loop_init"

\* C10: the loop is range(last_epoch + 1, epoch): max(0, E - L - 1) epochs
\* are trained, LR-stepped and saved; epoch E itself never is.
C10_RangeExcludesBudget ==
  pc = "done"
    => /\ CountEvents("train") = Max2(0, budget - lastEpoch - 1)
       /\ CountEvents("lr_step") = Max2(0, budget - lastEpoch - 1)
       /\ CountEvents("save_on_master") = Max2(0, budget - lastEpoch - 1)
       /\ budget \notin Range(writes)
       /\ lastEpoch >= budget - 1 => (CountEvents("train") = 0 /\ writes = <<>>)

C10_Witness == pc = "done" /\ run = 2 /\ lastEpoch > budget


(***************************************************************************)
(* val                                                                     *)
(***************************************************************************)

\* Longest weight_path string explored.
MaxPathLen == 4

\* Characters of the weight_path strings explored.
Chars == {"h", "t", "p", "x"}

\* Largest image_id, longest batch and number of batches explored.
MaxId == 2

MaxBatch == 2

MaxBatches == 2

\* Largest number of raw candidates of an image explored.
MaxCand == 500

\* Confidence levels of the candidates.
Scores == 1..3

\* fit is not running during val
FitIdle ==
  /\ run = 1
  /\ pc = "idle"
  /\ budget = 1
  /\ weightPath = None
  /\ useEma = FALSE
  /\ isDist = FALSE
  /\ rank = 0
  /\ lastEpoch = 0
  /\ ep = 0
  /\ files = <<>>
  /\ writes = <<>>
  /\ log = <<>>
  /\ lastDone = 0
  /\ final1 = 0
  /\ budget1 = 0

Http == <<"h", "t", "t", "p">>

\* Python `sub in s` on strings
Contains(str, sub) ==
  \E i \in 0..(Len(str) - Len(sub)) : SubSeq(str, i + 1, i + Len(sub)) = sub

RECURSIVE SeqsUpTo(_)
SeqsUpTo(n) ==
  IF n = 0 THEN {<<>>}
  ELSE SeqsUpTo(n - 1) \cup {Append(q, c) : q \in SeqsUpTo(n - 1), c \in Chars}

\* torch.hub.load_state_dict_from_url if 'http' in weight_path else torch.load
WeightSource(p) == IF Contains(p, Http) THEN "remote" ELSE "local"

WeightKeyBug(hasEma) == "model"

\* state['ema']['module'] if 'ema' in state else state['model']
WeightKey(hasEma) == IF hasEma THEN "ema.module" ELSE "model"

LoadInit ==
  /\ FitIdle
  /\ vpc = "load"
  /\ wpath \in {NonePath} \cup [given : {TRUE}, str : SeqsUpTo(MaxPathLen)]
  /\ ckptHasEma \in BOOLEAN
  /\ loadedFrom = ""
  /\ loadedKey = ""
  /\ loadStrict = TRUE
  /\ loads = 0
  /\ batches = <<>>
  /\ bi = 1
  /\ acc = <<>>
  /\ failed = FALSE
  /\ otherIds = {}
  /\ merged = {}
  /\ cands = <<>>
  /\ result = <<>>

\* lines 109-114
ValLoadWeights ==
  /\ vpc = "load"
  /\ IF wpath.given
     THEN /\ loadedFrom' = WeightSource(wpath.str)
          /\ loadedKey' = WeightKey(ckptHasEma)
          /\ loadStrict' = FALSE
          /\ loads' = loads + 1
     ELSE UNCHANGED <<loadedFrom, loadedKey, loadStrict, loads>>
  /\ vpc' = "loaded"
  /\ UNCHANGED <<wpath, ckptHasEma, batches, bi, acc, failed, otherIds, merged,
                 cands, result>>

LoadNext == ValLoadWeights /\ UNCHANGED fitVars

SpecLoad == LoadInit /\ [][LoadNext]_vars

\* C7: with a weight_path containing 'http' the weights are fetched
\* remotely, otherwise read locally; state['ema']['module'] is loaded
\* non-strictly when 'ema' is in the state, else state['model']; exactly one
\* load happens, none when weight_path is None.
C7_WeightLoading ==
  vpc = "loaded"
    => IF ~wpath.given
       THEN loads = 0 /\ loadedFrom = "" /\ loadedKey = ""
       ELSE /\ loads = 1
            /\ loadedFrom = (IF \E i \in 1..Len(wpath.str) - 3 :
                                  <<wpath.str[i], wpath.str[i + 1],
                                    wpath.str[i + 2], wpath.str[i + 3]>>
                                    = <<"h", "t", "t", "p">>
                             THEN "remote" ELSE "local")
            /\ loadedKey = (IF ckptHasEma THEN "ema.module" ELSE "model")
            /\ ~loadStrict

C7_Witness == vpc = "loaded" /\ loadedFrom = "remote" /\ loadedKey = "ema.module"


Ids == 1..MaxId

RECURSIVE SeqsOf(_, _)
\* non-empty sequences of elements of S of length at most n
SeqsOf(S, n) ==
  IF n = 0 THEN {}
  ELSE {<<x>> : x \in S} \cup {<<x>> \o q : x \in S, q \in SeqsOf(S, n - 1)}

\* position of the last target of batch b whose image_id is id
LastPos(b, id) == CHOOSE k \in 1..Len(b) : b[k] = id /\ \A j \in k + 1..Len(b) : b[j] # id

\* line 133: res = {target['image_id'].item(): output for target, output in zip(targets, results)}
BatchResults(b, i) == [id \in {b[k] : k \in 1..Len(b)} |-> <<i, LastPos(b, id)>>]

EvalInit ==
  /\ FitIdle
  /\ vpc = "loop"
  /\ wpath = NonePath
  /\ ckptHasEma = FALSE
  /\ loadedFrom = ""
  /\ loadedKey = ""
  /\ loadStrict = TRUE
  /\ loads = 0
  /\ batches \in SeqsOf(SeqsOf(Ids, MaxBatch), MaxBatches)
  /\ bi = 1
  /\ acc = <<>>
  /\ failed = FALSE
  /\ otherIds \in SUBSET Ids
  /\ merged = {}
  /\ cands = <<>>
  /\ result = <<>>

\* CocoEvaluator.update(res): the mapping grows by res; what it does with an
\* image_id it already holds is not fixed, so each outcome is possible
CocoUpdate(res) ==
  IF DOMAIN res \cap DOMAIN acc = {}
  THEN /\ acc' = acc @@ res
       /\ UNCHANGED <<failed, vpc>>
  ELSE \/ /\ acc' = res @@ acc
          /\ UNCHANGED <<failed, vpc>>
       \/ /\ acc' = acc @@ res
          /\ UNCHANGED <<failed, vpc>>
       \/ /\ failed' = TRUE
          /\ vpc' = "done"
          /\ UNCHANGED acc

\* lines 124-135: one batch, res built at line 133, update at line 135
ValBatch ==
  /\ vpc = "loop"
  /\ bi <= Len(batches)
  /\ CocoUpdate(BatchResults(batches[bi], bi))
  /\ bi' = bi + 1
  /\ UNCHANGED <<wpath, ckptHasEma, loadedFrom, loadedKey,
                 loadStrict, loads, batches, otherIds, merged, cands, result>>

\* line 124: the loader is exhausted
ValLoopEnd ==
  /\ vpc = "loop"
  /\ bi > Len(batches)
  /\ vpc' = "sync"
  /\ UNCHANGED <<wpath, ckptHasEma, loadedFrom, loadedKey, loadStrict, loads,
                 batches, bi, acc, failed, otherIds, merged, cands, result>>

\* line 141: coco_evaluator.synchronize_between_processes(), failing on an
\* image_id held by both processes
ValSync ==
  /\ vpc = "sync"
  /\ IF otherIds \cap DOMAIN acc # {}
     THEN /\ failed' = TRUE
          /\ UNCHANGED merged
     ELSE /\ merged' = DOMAIN acc \cup otherIds
          /\ UNCHANGED failed
  /\ vpc' = "done"
  /\ UNCHANGED <<wpath, ckptHasEma, loadedFrom, loadedKey, loadStrict, loads,
                 batches, bi, acc, otherIds, cands, result>>

EvalNext == (ValBatch \/ ValLoopEnd \/ ValSync) /\ UNCHANGED fitVars

SpecEval == EvalInit /\ [][EvalNext]_vars

\* C8: every DetectionResult produced reaches the accumulator exactly once
\* under its image_id, unless the run fails; the merged mapping's size is
\* the sum of the per-process sizes.
C8_EachResultReachesAccumulator ==
  (vpc = "done" /\ ~failed)
    => /\ \A b \in 1..Len(batches) : \A k \in 1..Len(batches[b]) :
            Cardinality({id \in DOMAIN acc : acc[id] = <<b, k>>}) = 1
       /\ Cardinality(merged) = Cardinality(DOMAIN acc) + Cardinality(otherIds)

\* num_top_queries=300 (line 104)
NumTopQueriesBug == 10 * 10

NumTopQueries == 300

Min2(a, b) == IF a < b THEN a ELSE b

Splits(n) == {0, 1, n \div 2, n} \cap 0..n

CandCounts == {0, 1, NumTopQueries - 1, NumTopQueries, NumTopQueries + 1, MaxCand}

CandBag(n, c3, c2) ==
  [s \in Scores |-> IF s = 3 THEN c3 ELSE IF s = 2 THEN c2 ELSE n - c3 - c2]

CandBags(n) ==
  UNION {{CandBag(n, c3, c2) : c2 \in Splits(n - c3)} : c3 \in Splits(n)}

NumCands(c) == c[1] + c[2] + c[3]

RECURSIVE TakeTop(_, _, _)
TakeTop(c, k, s) ==
  IF s < 1 \/ k = 0 THEN <<>>
  ELSE LET t == Min2(k, c[s]) IN [i \in 1..t |-> s] \o TakeTop(c, k - t, s - 1)

\* RTDETRPostProcessor: the num_top_queries highest-scoring candidates
TopK(c, k) == TakeTop(c, k, 3)

PostInit ==
  /\ FitIdle
  /\ vpc = "post"
  /\ wpath = NonePath
  /\ ckptHasEma = FALSE
  /\ loadedFrom = ""
  /\ loadedKey = ""
  /\ loadStrict = TRUE
  /\ loads = 0
  /\ batches = <<>>
  /\ bi = 1
  /\ acc = <<>>
  /\ failed = FALSE
  /\ otherIds = {}
  /\ merged = {}
  /\ cands \in UNION {CandBags(n) : n \in CandCounts}
  /\ result = <<>>

\* line 131: results = postprocessor(outputs, orig_target_sizes)
Postprocess ==
  /\ vpc = "post"
  /\ result' = TopK(cands, NumTopQueries)
  /\ vpc' = "done"
  /\ UNCHANGED <<wpath, ckptHasEma, loadedFrom, loadedKey, loadStrict, loads,
                 batches, bi, acc, failed, otherIds, merged, cands>>

PostNext == Postprocess /\ UNCHANGED fitVars

SpecPost == PostInit /\ [][PostNext]_vars

\* C9: the DetectionResult of an image with N raw candidates holds exactly
\* min(N, 300) entries, in non-increasing confidence order.
C9_TopQueries ==
  vpc = "done"
    => /\ Len(result) = Min2(NumCands(cands), 300)
       /\ \A i \in 1..Len(result) - 1 : result[i] >= result[i + 1]
       /\ \A s \in Scores :
            Cardinality({i \in 1..Len(result) : result[i] = s}) <= cands[s]

C9_Witness == vpc = "done" /\ NumCands(cands) = 500 /\ cands[1] > 0 /\ cands[3] > 0


====
